---- MODULE Spec2Model ----
(***************************************************************************)
(* A model of src/main.tsx: a script of six snippets that build one value  *)
(* each, hand it to a zod schema and log the result.  JavaScript values    *)
(* are records; the zod combinators the script composes are operators on   *)
(* them with zod 3's parse semantics; the script itself is a state machine *)
(* over its top-level statements and the microtask queue.                  *)
(***************************************************************************)
EXTENDS Integers, Sequences, FiniteSets, TLC

VARIABLES
  user,           \* const user (l.63)
  userWithRecord, \* const userWithRecord (l.104)
  userFromMap,    \* const userFromMap (l.118)
  promise,        \* const promise (l.134)
  email,          \* const email (l.153)
  results,        \* const results (l.182), NoResult before it is evaluated
  pc,             \* the next top-level statement, "done" or "crashed"
  crashAt,        \* the snippet whose parse call threw ("none" if none did)
  uncaught,       \* the issues of the error that call threw
  console,        \* the console.log entries written so far
  microtasks,     \* pending promise reactions
  settled,        \* how the promise logged at l.136 settled
  validated       \* how many times each example value was handed to a validator

vars == <<user, userWithRecord, userFromMap, promise, email, results, pc,
          crashAt, uncaught, console, microtasks, settled, validated>>

(***************************************************************************)
(* JavaScript values.  t is the type zod's getParsedType reports; s holds  *)
(* a string's characters (or an object's class, a promise's state); n a    *)
(* number in half units (so 87 is 174 and 80.5 is 161), a boolean as 0/1   *)
(* or a date's validity; ks/xs an object's keys and their values, an       *)
(* array's items, a map's [key, value] pairs or a promise's result.        *)
(***************************************************************************)
V(t, n, s, ks, xs) == [t |-> t, n |-> n, s |-> s, ks |-> ks, xs |-> xs]

Undefined == V("undefined", 0, <<>>, <<>>, <<>>)
Null == V("null", 0, <<>>, <<>>, <<>>)
NaN == V("nan", 0, <<>>, <<>>, <<>>)
Str(chars) == V("string", 0, chars, <<>>, <<>>)
Num(i) == V("number", 2 * i, <<>>, <<>>, <<>>)
Halves(h) == V("number", h, <<>>, <<>>, <<>>)
Infinity == V("number", 0, <<"I", "n", "f", "i", "n", "i", "t", "y">>, <<>>, <<>>)
Bool(b) == V("boolean", IF b THEN 1 ELSE 0, <<>>, <<>>, <<>>)
True == Bool(TRUE)
False == Bool(FALSE)
Date(valid) == V("date", IF valid THEN 1 ELSE 0, <<>>, <<>>, <<>>)
Arr(items) == V("array", 0, <<>>, <<>>, items)
Obj(ks, xs) == V("object", 0, <<>>, ks, xs)
ErrorObj == V("object", 0, <<"E", "r", "r", "o", "r">>, <<>>, <<>>)
MapOf(pairs) == V("map", 0, <<>>, <<>>, pairs)
PromiseOf(state, value) == V("promise", 0, state, <<>>, <<value>>)

IsFinite(v) == v.t = "number" /\ v.s = <<>>
IsInteger(v) == IsFinite(v) /\ v.n % 2 = 0
GreaterThan(v, i) == v.t = "number" /\ (IF IsFinite(v) THEN v.n > 2 * i ELSE TRUE)

HasKey(o, k) == \E i \in 1..Len(o.ks) : o.ks[i] = k
Get(o, k) == IF HasKey(o, k) THEN o.xs[CHOOSE i \in 1..Len(o.ks) : o.ks[i] = k] ELSE Undefined
EndsWith(chars, suffix) ==
  /\ Len(chars) >= Len(suffix)
  /\ SubSeq(chars, Len(chars) - Len(suffix) + 1, Len(chars)) = suffix

\* a sequence given by its items, evaluated once
Items(f) == f \o <<>>

RECURSIVE Flatten(_)
Flatten(seqs) == IF seqs = <<>> THEN <<>> ELSE Head(seqs) \o Flatten(Tail(seqs))

\* the indices from i on at which keep holds
RECURSIVE SelectIdx(_, _)
SelectIdx(keep, i) ==
  IF i > Len(keep) THEN <<>>
  ELSE (IF keep[i] THEN <<i>> ELSE <<>>) \o SelectIdx(keep, i + 1)

SetKey(o, k, x) == [o EXCEPT !.xs = [i \in 1..Len(o.ks) |-> IF o.ks[i] = k THEN x ELSE o.xs[i]]]
AddKey(o, k, x) ==
  IF HasKey(o, k) THEN SetKey(o, k, x)
  ELSE [o EXCEPT !.ks = Append(o.ks, k), !.xs = Append(o.xs, x)]
DropKey(o, k) ==
  LET kept == SelectIdx(Items([i \in 1..Len(o.ks) |-> o.ks[i] # k]), 1)
  IN  [o EXCEPT !.ks = [j \in 1..Len(kept) |-> o.ks[kept[j]]],
                !.xs = [j \in 1..Len(kept) |-> o.xs[kept[j]]]]

(***************************************************************************)
(* Parse results: zod's ParseReturnType.  st is "valid", "dirty" (a check  *)
(* failed, parsing went on) or "aborted" (wrong type, parsing stopped).    *)
(***************************************************************************)
OK(v) == [st |-> "valid", v |-> v, issues |-> <<>>]
INVALID(v, issue) == [st |-> "aborted", v |-> v, issues |-> <<issue>>]
Dirty(r, issue) == [st |-> "dirty", v |-> r.v, issues |-> Append(r.issues, issue)]
Check(r, holds, issue) ==
  IF r.st = "aborted" \/ holds THEN r ELSE Dirty(r, issue)
Merge(rs, v) ==
  [st |-> IF \E i \in 1..Len(rs) : rs[i].st = "aborted" THEN "aborted"
          ELSE IF \E i \in 1..Len(rs) : rs[i].st = "dirty" THEN "dirty"
          ELSE "valid",
   v |-> v,
   issues |-> Flatten(Items([i \in 1..Len(rs) |-> rs[i].issues]))]
isValid(r) == r.st = "valid"

(***************************************************************************)
(* The zod combinators the script uses, with zod 3's parse semantics.      *)
(***************************************************************************)
ZString(v) == IF v.t = "string" THEN OK(v) ELSE INVALID(v, <<"i", "n", "v", "a", "l", "i", "d", "_", "t", "y", "p", "e">>)
ZMin(r, len) == Check(r, Len(r.v.s) >= len, <<"t", "o", "o", "_", "s", "m", "a", "l", "l">>)

ZNumber(v) == IF v.t = "number" THEN OK(v) ELSE INVALID(v, <<"i", "n", "v", "a", "l", "i", "d", "_", "t", "y", "p", "e">>)
\* mutant: .gte in place of .gt
ZGte(r, i) == Check(r, GreaterThan(r.v, i) \/ r.v = Num(i), <<"t", "o", "o", "_", "s", "m", "a", "l", "l">>)
ZGt(r, i) == Check(r, GreaterThan(r.v, i), <<"t", "o", "o", "_", "s", "m", "a", "l", "l">>)
ZInt(r) == Check(r, IsInteger(r.v), <<"n", "o", "t", "_", "i", "n", "t", "e", "g", "e", "r">>)

ZBoolean(v) == IF v.t = "boolean" THEN OK(v) ELSE INVALID(v, <<"i", "n", "v", "a", "l", "i", "d", "_", "t", "y", "p", "e">>)

ZDate(v) ==
  IF v.t # "date" THEN INVALID(v, <<"i", "n", "v", "a", "l", "i", "d", "_", "t", "y", "p", "e">>)
  ELSE IF v.n # 1 THEN INVALID(v, <<"i", "n", "v", "a", "l", "i", "d", "_", "d", "a", "t", "e">>)
  ELSE OK(v)

\* wrappers: r is the wrapped schema's result for v
ZOptional(r, v) == IF v.t = "undefined" THEN OK(v) ELSE r
ZNullable(r, v) == IF v.t = "null" THEN OK(v) ELSE r
\* rDefault is the wrapped schema's result for the default value
ZDefault(rDefault, r, v) == IF v.t = "undefined" THEN rDefault ELSE r

ZLiteral(lit, v) == IF v = lit THEN OK(v) ELSE INVALID(v, <<"i", "n", "v", "a", "l", "i", "d", "_", "l", "i", "t", "e", "r", "a", "l">>)

ZEnum(options, v) ==
  IF v.t # "string" THEN INVALID(v, <<"i", "n", "v", "a", "l", "i", "d", "_", "t", "y", "p", "e">>)
  ELSE IF v.s \notin options THEN INVALID(v, <<"i", "n", "v", "a", "l", "i", "d", "_", "e", "n", "u", "m", "_", "v", "a", "l", "u", "e">>)
  ELSE OK(v)

\* a, b: the options' results for v, in order
ZUnion(a, b, v) ==
  IF isValid(a) THEN a
  ELSE IF isValid(b) THEN b
  ELSE INVALID(v, <<"i", "n", "v", "a", "l", "i", "d", "_", "u", "n", "i", "o", "n">>)

\* rs: the item schema's results for v's items
ZArray(rs, v) ==
  IF v.t # "array" THEN INVALID(v, <<"i", "n", "v", "a", "l", "i", "d", "_", "t", "y", "p", "e">>)
  ELSE Merge(rs, Arr([i \in 1..Len(rs) |-> rs[i].v]))
ZNonempty(r) == Check(r, Len(r.v.xs) >= 1, <<"t", "o", "o", "_", "s", "m", "a", "l", "l">>)

\* rs: the three item schemas' results for v's first three items
ZTuple(rs, v) ==
  IF v.t # "array" THEN INVALID(v, <<"i", "n", "v", "a", "l", "i", "d", "_", "t", "y", "p", "e">>)
  ELSE IF Len(v.xs) < 3 THEN INVALID(v, <<"t", "o", "o", "_", "s", "m", "a", "l", "l">>)
  ELSE Check(Merge(rs, Arr([i \in 1..3 |-> rs[i].v])), Len(v.xs) <= 3, <<"t", "o", "o", "_", "b", "i", "g">>)

ZInstanceof(class, v) ==
  IF v.t = "object" /\ v.s = class THEN OK(v) ELSE INVALID(v, <<"c", "u", "s", "t", "o", "m">>)

\* z.object: every shape key is parsed (a missing key as undefined), rs being
\* the results in the order of shapeKeys; unknown keys are stripped; a key is
\* kept when the input had it or its parsed value is not undefined.
ZObject(shapeKeys, rs, v) ==
  IF v.t # "object" THEN INVALID(v, <<"i", "n", "v", "a", "l", "i", "d", "_", "t", "y", "p", "e">>)
  ELSE LET kept == SelectIdx(Items([i \in 1..Len(shapeKeys) |->
                               HasKey(v, shapeKeys[i]) \/ rs[i].v.t # "undefined"]), 1)
       IN  Merge(rs, Obj([j \in 1..Len(kept) |-> shapeKeys[kept[j]]],
                         [j \in 1..Len(kept) |-> rs[kept[j]].v]))

\* a, b: the results of the options whose discriminator is litA, litB
ZDiscriminatedUnion(discriminator, litA, a, litB, b, v) ==
  IF v.t # "object" THEN INVALID(v, <<"i", "n", "v", "a", "l", "i", "d", "_", "t", "y", "p", "e">>)
  ELSE IF Get(v, discriminator) = litA THEN a
  ELSE IF Get(v, discriminator) = litB THEN b
  ELSE INVALID(v, <<"i", "n", "v", "a", "l", "i", "d", "_", "u", "n", "i", "o", "n", "_", "d", "i", "s", "c", "r", "i", "m", "i", "n", "a", "t", "o", "r">>)

\* mutant: a record whose empty key is refused
ZRecordKeys(rs, v) ==
  IF v.t # "object" THEN INVALID(v, <<"i", "n", "v", "a", "l", "i", "d", "_", "t", "y", "p", "e">>)
  ELSE IF HasKey(v, "") THEN INVALID(v, <<"i", "n", "v", "a", "l", "i", "d", "_", "k", "e", "y">>)
  ELSE Merge(rs, Obj(v.ks, [i \in 1..Len(rs) |-> rs[i].v]))

\* z.record(valueType): the keys are strings already; every value is parsed,
\* rs being the value schema's results for v's values.
ZRecord(rs, v) ==
  IF v.t # "object" THEN INVALID(v, <<"i", "n", "v", "a", "l", "i", "d", "_", "t", "y", "p", "e">>)
  ELSE Merge(rs, Obj(v.ks, [i \in 1..Len(rs) |-> rs[i].v]))

\* ks, vs: the key and the value schema's results for v's entries
ZMap(ks, vs, v) ==
  IF v.t # "map" THEN INVALID(v, <<"i", "n", "v", "a", "l", "i", "d", "_", "t", "y", "p", "e">>)
  ELSE Merge(ks \o vs, MapOf([i \in 1..Len(v.xs) |-> Arr(<<ks[i].v, vs[i].v>>)]))

\* z.promise, synchronous step: the input must be a promise; the value handed
\* back is a new, still pending promise (input.then(validate)).
ZPromise(v) ==
  IF v.t # "promise" THEN INVALID(v, <<"i", "n", "v", "a", "l", "i", "d", "_", "t", "y", "p", "e">>)
  ELSE OK(PromiseOf(<<"p", "e", "n", "d", "i", "n", "g">>, Undefined))

\* .refine(check, {message}): holds is check's verdict on the value parsed
ZRefine(r, holds, message) ==
  IF r.st = "aborted" THEN r
  ELSE IF holds THEN r
  ELSE Dirty(r, message)

(***************************************************************************)
(* z.string().email(), zod 3's pattern computed on the characters: no      *)
(* leading dot, no two dots in a row; a local part of letters, digits and  *)
(* _ + - . that does not end with a dot; an @; one or more labels, each    *)
(* starting with a letter or digit, going on with letters, digits or - and *)
(* closed by a dot; a top-level domain of two or more letters.             *)
(***************************************************************************)
Letters ==
  {"a", "b", "c", "d", "e", "f", "g", "h", "i", "j", "k", "l", "m", "n", "o", "p",
   "q", "r", "s", "t", "u", "v", "w", "x", "y", "z",
   "A", "B", "C", "D", "E", "F", "G", "H", "I", "J", "K", "L", "M", "N", "O", "P",
   "Q", "R", "S", "T", "U", "V", "W", "X", "Y", "Z"}
Digits == {"0", "1", "2", "3", "4", "5", "6", "7", "8", "9"}
AlphaNum == Letters \cup Digits

\* the labels before the top-level domain: ([A-Z0-9][A-Z0-9\-]*\.)+ , where
\* chars ends with the dot that closes the last label
IsLabels(chars) ==
  /\ Len(chars) >= 2
  /\ chars[Len(chars)] = "."
  /\ \A i \in 1..Len(chars) :
       IF i = 1 \/ chars[IF i = 1 THEN 1 ELSE i - 1] = "."
       THEN chars[i] \in AlphaNum
       ELSE chars[i] \in AlphaNum \cup {"-", "."}

IsDomain(chars) ==
  \E q \in 1..Len(chars) :
    /\ chars[q] = "."
    /\ Len(chars) - q >= 2
    /\ \A i \in (q + 1)..Len(chars) : chars[i] \in Letters
    /\ IsLabels(SubSeq(chars, 1, q))

IsLocalPart(chars) ==
  /\ Len(chars) >= 1
  /\ \A i \in 1..Len(chars) : chars[i] \in AlphaNum \cup {"_", "+", "-", "."}
  /\ chars[Len(chars)] # "."

IsEmail(chars) ==
  /\ Len(chars) >= 1
  /\ chars[1] # "."
  /\ \A i \in 1..(Len(chars) - 1) : ~(chars[i] = "." /\ chars[i + 1] = ".")
  /\ \E p \in 1..Len(chars) :
       /\ chars[p] = "@"
       /\ IsLocalPart(SubSeq(chars, 1, p - 1))
       /\ IsDomain(SubSeq(chars, p + 1, Len(chars)))

ZEmail(r) == Check(r, IsEmail(r.v.s), <<"I", "n", "v", "a", "l", "i", "d", " ", "e", "m", "a", "i", "l">>)

(***************************************************************************)
(* The schemas of the script.                                              *)
(***************************************************************************)
SubscriptionSuccess(k, v) ==
  CASE k = "status" -> ZLiteral(Str(<<"s", "u", "c", "c", "e", "s", "s">>), v)
    [] k = "userSubscribed" -> ZBoolean(v)
    [] k = "subscriptionTier" -> ZString(v)

SubscriptionFailed(k, v) ==
  CASE k = "status" -> ZLiteral(Str(<<"f", "a", "i", "l", "e", "d">>), v)
    [] k = "error" -> ZInstanceof(<<"E", "r", "r", "o", "r">>, v)

SuccessKeys == <<"status", "userSubscribed", "subscriptionTier">>
FailedKeys == <<"status", "error">>

SubscriptionRenewal(v) ==
  ZDiscriminatedUnion("status",
    Str(<<"s", "u", "c", "c", "e", "s", "s">>),
    ZObject(SuccessKeys,
            Items([i \in 1..Len(SuccessKeys) |->
                     SubscriptionSuccess(SuccessKeys[i], Get(v, SuccessKeys[i]))]), v),
    Str(<<"f", "a", "i", "l", "e", "d">>),
    ZObject(FailedKeys,
            Items([i \in 1..Len(FailedKeys) |->
                     SubscriptionFailed(FailedKeys[i], Get(v, FailedKeys[i]))]), v),
    v)

UserShapeKeys ==
  <<"id", "username", "age", "birthday", "isDeveloper", "isSuperCool", "hobbies",
    "family", "coordinates", "subscriptionRenewal">>

HobbyOptions == {<<"W", "o", "o", "d", "w", "o", "r", "k", "i", "n", "g">>, <<"B", "i", "k", "i", "n", "g">>, <<"G", "u", "i", "t", "a", "r">>}

Coordinates(v) ==
  ZTuple(<<ZNumber(v.xs[1]), ZString(v.xs[2]), ZInt(ZGt(ZNumber(v.xs[3]), 80))>>, v)

UserShape(k, v) ==
  CASE k = "id" -> ZUnion(ZString(v), ZNumber(v), v)
    [] k = "username" -> ZMin(ZString(v), 3)
    [] k = "age" -> ZGt(ZNumber(v), 0)
    [] k = "birthday" -> ZOptional(ZDate(v), v)
    [] k = "isDeveloper" ->
         ZDefault(ZNullable(ZBoolean(False), False), ZNullable(ZBoolean(v), v), v)
    [] k = "isSuperCool" -> ZLiteral(True, v)
    [] k = "hobbies" -> ZEnum(HobbyOptions, v)
    [] k = "family" -> ZNonempty(ZArray(Items([i \in 1..Len(v.xs) |-> ZString(v.xs[i])]), v))
    [] k = "coordinates" -> Coordinates(v)
    [] k = "subscriptionRenewal" -> SubscriptionRenewal(v)

UserSchema(v) ==
  ZObject(UserShapeKeys,
          Items([i \in 1..Len(UserShapeKeys) |-> UserShape(UserShapeKeys[i], Get(v, UserShapeKeys[i]))]),
          v)

\* mutant: z.record with its keys validated too
UserRecordKeys(v) == ZRecordKeys(Items([i \in 1..Len(v.xs) |-> ZString(v.xs[i])]), v)

UserRecord(v) == ZRecord(Items([i \in 1..Len(v.xs) |-> ZString(v.xs[i])]), v)

UserMapValue(k, v) ==
  CASE k = "name" -> ZString(v)

UserMapEntry(v) == ZObject(<<"name">>, <<UserMapValue("name", Get(v, "name"))>>, v)

UserMap(v) ==
  ZMap(Items([i \in 1..Len(v.xs) |-> ZString(v.xs[i].xs[1])]),
       Items([i \in 1..Len(v.xs) |-> UserMapEntry(v.xs[i].xs[2])]),
       v)

PromiseSchema(v) == ZPromise(v)

\* the reaction z.promise attaches: the resolved value is parsed by z.string()
PromiseSchemaThen(v) ==
  IF v.s = <<"r", "e", "j", "e", "c", "t", "e", "d">> THEN FALSE ELSE isValid(ZString(v.xs[1]))

EndsWithGrow(v) == EndsWith(v.s, <<"@", "g", "r", "o", "w", ".", "c", "o", "m">>)

\* mutant: the refinement without .email()
BrandEmailNoFormat(v) == ZRefine(ZString(v), EndsWithGrow(v), <<"E", "m", "a", "i", "l", " ", "m", "u", "s", "t", " ", "e", "n", "d", " ", "w", "i", "t", "h", " ", "@", "g", "r", "o", "w", ".", "c", "o", "m">>)

BrandEmail(v) == ZRefine(ZEmail(ZString(v)), EndsWithGrow(v), <<"E", "m", "a", "i", "l", " ", "m", "u", "s", "t", " ", "e", "n", "d", " ", "w", "i", "t", "h", " ", "@", "g", "r", "o", "w", ".", "c", "o", "m">>)

(***************************************************************************)
(* The example values written in the script.                               *)
(***************************************************************************)
\* mutant: the user of l.63 with a username below the minimum length
UserLiteralShortName ==
  Obj(UserShapeKeys,
      << Str(<<"j", "f", "k", "d", "s", "a", "l", "j", "f", "k", "d", "!", "!", "!", "$", "j", "3", "4", "k", "2", "l", "j">>), Str(<<"j", "k">>), Num(32), Date(TRUE), True, True,
         Str(<<"G", "u", "i", "t", "a", "r">>),
         Arr(<<Str(<<"K", "a", "i", "t", "l", "i", "n">>), Str(<<"C", "h", "a", "r", "l", "i", "e">>)>>),
         Arr(<<Num(45), Str(<<"3", "8">>), Num(87)>>),
         Obj(<<"status", "userSubscribed", "subscriptionTier">>,
             <<Str(<<"s", "u", "c", "c", "e", "s", "s">>), True, Str(<<"w", "h", "i", "t", "e", "L", "a", "b", "e", "l">>)>>) >>)

UserLiteral ==
  Obj(UserShapeKeys,
      << Str(<<"j", "f", "k", "d", "s", "a", "l", "j", "f", "k", "d", "!", "!", "!", "$", "j", "3", "4", "k", "2", "l", "j">>),
         Str(<<"j", "a", "k", "e", "i", "n", "e", "r", "n", "e", "y">>),
         Num(32),
         Date(TRUE),
         True,
         True,
         Str(<<"G", "u", "i", "t", "a", "r">>),
         Arr(<<Str(<<"K", "a", "i", "t", "l", "i", "n">>), Str(<<"C", "h", "a", "r", "l", "i", "e">>)>>),
         Arr(<<Num(45), Str(<<"3", "8">>), Num(87)>>),
         Obj(<<"status", "userSubscribed", "subscriptionTier">>,
             <<Str(<<"s", "u", "c", "c", "e", "s", "s">>), True, Str(<<"w", "h", "i", "t", "e", "L", "a", "b", "e", "l">>)>>) >>)

RecordLiteral ==
  Obj(<<"keyDoesNotMatter", "thisKeyDoesNotMatterEither">>,
      <<Str(<<"t", "h", "i", "s", "'", "l", "l", " ", "l", "o", "g", " ", "c", "o", "r", "r", "e", "c", "t", "l", "y">>), Str(<<"s", "o", " ", "w", "i", "l", "l", " ", "t", "h", "i", "s">>)>>)

MapLiteral ==
  MapOf(<< Arr(<<Str(<<"i", "d", "-", "w", "a", "y", "n", "e">>), Obj(<<"name">>, <<Str(<<"W", "a", "y", "n", "e">>)>>)>>),
           Arr(<<Str(<<"i", "d", "-", "g", "a", "r", "t", "h">>), Obj(<<"name">>, <<Str(<<"G", "a", "r", "t", "h">>)>>)>>) >>)

PromiseLiteral == PromiseOf(<<"f", "u", "l", "f", "i", "l", "l", "e", "d">>, Str(<<"H", "e", "l", "l", "o", " ", "t", "h", "e", "r", "e">>))

EmailLiteral == Str(<<"j", "a", "k", "e", ".", "m", "c", "i", "n", "e", "r", "n", "e", "y", "@", "g", "r", "o", "w", ".", "c", "o", "m">>)

(***************************************************************************)
(* The inputs explored.  The script fixes its five example values; to see  *)
(* what each schema does with other values, a run may start from variants  *)
(* of them: each value is the script's or a rejected alternative the       *)
(* script's comments name, or one value is edited more widely while the    *)
(* others stay as written.                                                 *)
(***************************************************************************)
MaxUserEdits == 2
MaxRecordEdits == 2
MaxPrefix == 3

Put(k, values) == {[op |-> "put", k |-> k, x |-> x] : x \in values}
Drop(keys) == {[op |-> "drop", k |-> k, x |-> Undefined] : k \in keys}
Apply(o, e) == IF e.op = "put" THEN AddKey(o, e.k, e.x) ELSE DropKey(o, e.k)

RECURSIVE Edited(_, _, _)
Edited(base, edits, k) ==
  IF k = 0 THEN {base}
  ELSE LET prev == Edited(base, edits, k - 1)
       IN  prev \cup {Apply(o, e) : o \in prev, e \in edits}

Sub(status, ks, xs) == Obj(<<"status">> \o ks, <<Str(status)>> \o xs)

UserEdits ==
  Put("id", {Num(7), NaN, True, Null, Undefined, Str(<<>>)})
  \cup Put("username", {Str(<<"a", "b">>), Str(<<"a", "b", "c">>), Str(<<>>), Num(3), Undefined})
  \cup Put("age", {Num(0), Halves(1), Num(-1), Num(1), Infinity, NaN, Str(<<"3", "2">>), Undefined})
  \cup Put("birthday", {Undefined, Date(FALSE), Null, Str(<<"2", "0", "2", "0", "-", "0", "1", "-", "0", "1">>)})
  \cup Put("isDeveloper", {Undefined, Null, False, Num(0), Str(<<"t", "r", "u", "e">>)})
  \cup Put("isSuperCool", {False, Undefined, Null, Str(<<"t", "r", "u", "e">>), Num(1)})
  \cup Put("hobbies", {Str(<<"W", "o", "o", "d", "w", "o", "r", "k", "i", "n", "g">>), Str(<<"B", "i", "k", "i", "n", "g">>), Str(<<"g", "u", "i", "t", "a", "r">>), Str(<<"C", "h", "e", "s", "s">>),
                       Num(1), Undefined})
  \cup Put("family", {Arr(<<>>), Arr(<<Str(<<"K", "a", "i", "t", "l", "i", "n">>)>>), Arr(<<Str(<<"K", "a", "i", "t", "l", "i", "n">>), Num(1)>>),
                      Arr(<<Null>>), Str(<<"K", "a", "i", "t", "l", "i", "n">>), Undefined})
  \cup Put("coordinates",
         {Arr(<<Num(45), Str(<<"3", "8">>), Num(81)>>), Arr(<<Num(45), Str(<<"3", "8">>), Num(80)>>),
          Arr(<<Num(45), Str(<<"3", "8">>), Halves(161)>>), Arr(<<Num(45), Str(<<"3", "8">>), Halves(175)>>),
          Arr(<<Num(45), Str(<<"3", "8">>), Infinity>>), Arr(<<Num(45), Str(<<"3", "8">>), NaN>>),
          Arr(<<Halves(91), Str(<<>>), Num(87)>>), Arr(<<NaN, Str(<<"3", "8">>), Num(87)>>),
          Arr(<<Str(<<"4", "5">>), Str(<<"3", "8">>), Num(87)>>), Arr(<<Num(45), Num(38), Num(87)>>),
          Arr(<<Num(45), Str(<<"3", "8">>)>>), Arr(<<Num(45), Str(<<"3", "8">>), Num(87), Num(1)>>),
          Arr(<<>>), Obj(<<>>, <<>>), Undefined})
  \cup Put("subscriptionRenewal",
         {Sub(<<"f", "a", "i", "l", "e", "d">>, <<"error">>, <<ErrorObj>>),
          Sub(<<"f", "a", "i", "l", "e", "d">>, <<"error">>, <<Str(<<"E", "r", "r", "o", "r">>)>>),
          Sub(<<"f", "a", "i", "l", "e", "d">>, <<"error">>, <<Obj(<<>>, <<>>)>>),
          Sub(<<"f", "a", "i", "l", "e", "d">>, <<>>, <<>>),
          Sub(<<"f", "a", "i", "l", "e", "d">>, <<"userSubscribed", "subscriptionTier">>, <<True, Str(<<"w", "h", "i", "t", "e", "L", "a", "b", "e", "l">>)>>),
          Sub(<<"s", "u", "c", "c", "e", "s", "s">>, <<"error">>, <<ErrorObj>>),
          Sub(<<"s", "u", "c", "c", "e", "s", "s">>, <<"userSubscribed", "subscriptionTier">>, <<False, Str(<<>>)>>),
          Sub(<<"s", "u", "c", "c", "e", "s", "s">>, <<"userSubscribed", "subscriptionTier">>, <<Null, Str(<<"w", "h", "i", "t", "e", "L", "a", "b", "e", "l">>)>>),
          Sub(<<"s", "u", "c", "c", "e", "s", "s">>, <<"userSubscribed", "subscriptionTier">>, <<True, Num(1)>>),
          Sub(<<"s", "u", "c", "c", "e", "s", "s">>, <<"userSubscribed">>, <<True>>),
          Sub(<<"s", "u", "c", "c", "e", "s", "s">>, <<"userSubscribed", "subscriptionTier", "error">>,
              <<True, Str(<<"w", "h", "i", "t", "e", "L", "a", "b", "e", "l">>), ErrorObj>>),
          Sub(<<"p", "e", "n", "d", "i", "n", "g">>, <<"userSubscribed", "subscriptionTier">>, <<True, Str(<<"w", "h", "i", "t", "e", "L", "a", "b", "e", "l">>)>>),
          Obj(<<"userSubscribed", "subscriptionTier">>, <<True, Str(<<"w", "h", "i", "t", "e", "L", "a", "b", "e", "l">>)>>),
          Arr(<<>>), Null, Undefined})
  \cup Put("name", {Str(<<"J", "a", "k", "e">>)})
  \cup Drop({"id", "birthday", "isDeveloper", "isSuperCool", "family"})

UserInputs == Edited(UserLiteral, UserEdits, MaxUserEdits) \cup {Null, Arr(<<>>), Str(<<"u", "s", "e", "r">>)}

RecordEdits ==
  Put("keyDoesNotMatter", {Str(<<>>), Num(1), Null, Undefined, True, Arr(<<>>)})
  \cup Put("thisKeyDoesNotMatterEither", {Str(<<"s", "o">>), Obj(<<>>, <<>>)})
  \cup Put("thisWillThrowAnError", {Num(1), Str(<<"1">>)})
  \cup Put("", {Str(<<"e", "m", "p", "t", "y", " ", "k", "e", "y">>), NaN})
  \cup Put("1", {Str(<<"n", "u", "m", "e", "r", "i", "c", " ", "k", "e", "y">>), Date(TRUE)})
  \cup Drop({"keyDoesNotMatter", "thisKeyDoesNotMatterEither"})

RecordInputs ==
  Edited(RecordLiteral, RecordEdits, MaxRecordEdits) \cup {Null, Arr(<<Str(<<"a">>)>>), Str(<<"r", "e", "c", "o", "r", "d">>), Undefined}

Entry(k, v) == Arr(<<k, v>>)
Named(x) == Obj(<<"name">>, <<x>>)

MapInputs ==
  { MapLiteral,
    MapOf(<<>>),
    MapOf(<<Entry(Str(<<"i", "d", "-", "w", "a", "y", "n", "e">>), Named(Str(<<"W", "a", "y", "n", "e">>)))>>),
    MapOf(<<Entry(Num(1), Named(Str(<<"W", "a", "y", "n", "e">>)))>>),
    MapOf(<<Entry(Str(<<"i", "d", "-", "w", "a", "y", "n", "e">>), Named(Num(1)))>>),
    MapOf(<<Entry(Str(<<"i", "d", "-", "w", "a", "y", "n", "e">>), Obj(<<>>, <<>>))>>),
    MapOf(<<Entry(Str(<<"i", "d", "-", "w", "a", "y", "n", "e">>), Str(<<"W", "a", "y", "n", "e">>))>>),
    MapOf(<<Entry(Str(<<"i", "d", "-", "w", "a", "y", "n", "e">>), Named(Str(<<"W", "a", "y", "n", "e">>))), Entry(Str(<<"i", "d", "-", "g", "a", "r", "t", "h">>), Named(Null))>>),
    MapOf(<<Entry(Str(<<"i", "d", "-", "w", "a", "y", "n", "e">>), Obj(<<"name", "age">>, <<Str(<<"W", "a", "y", "n", "e">>), Num(30)>>))>>),
    Obj(<<"id-wayne">>, <<Named(Str(<<"W", "a", "y", "n", "e">>))>>),
    Arr(<<>>), Null }

PromiseInputs ==
  { PromiseLiteral,
    PromiseOf(<<"f", "u", "l", "f", "i", "l", "l", "e", "d">>, Num(1)),
    PromiseOf(<<"f", "u", "l", "f", "i", "l", "l", "e", "d">>, Undefined),
    PromiseOf(<<"r", "e", "j", "e", "c", "t", "e", "d">>, ErrorObj),
    PromiseOf(<<"p", "e", "n", "d", "i", "n", "g">>, Undefined),
    Str(<<"H", "e", "l", "l", "o", " ", "t", "h", "e", "r", "e">>),
    Undefined }

RECURSIVE Words(_, _)
Words(alphabet, len) ==
  IF len = 0 THEN {<<>>}
  ELSE LET shorter == Words(alphabet, len - 1)
       IN  shorter \cup {Append(w, c) : w \in shorter, c \in alphabet}

EmailPrefixes == Words({"j", ".", "@", "-", " "}, MaxPrefix)
EmailSuffixes ==
  {<<>>, <<"@", "g", "r", "o", "w", ".", "c", "o", "m">>, <<"@", "e", "p", "c", "i", "o", "r", ".", "c", "o", "m">>, <<"@", "g", "r", "o", "w", ".", "c", "o">>, <<"@", "G", "R", "O", "W", ".", "C", "O", "M">>, <<"g", "r", "o", "w", ".", "c", "o", "m">>,
   <<"@", "g", "r", "o", "w", ".", "c", "o", "m", ".">>, <<"@", "g", "r", "o", "w", ".", "c", "o", "m", " ">>, <<"@", "-", "g", "r", "o", "w", ".", "c", "o", "m">>, <<"@", "g", "r", "o", "w", ".", "c", "0", "m">>, <<"@", "g", "r", "o", "w">>,
   <<"@", "m", "a", "i", "l", ".", "g", "r", "o", "w", ".", "c", "o", "m">>, <<"@", "g", "r", "o", "w", ".", "c", "o", "m", "@", "g", "r", "o", "w", ".", "c", "o", "m">>}

EmailInputs ==
  {Str(p \o s) : p \in EmailPrefixes, s \in EmailSuffixes}
  \cup {EmailLiteral, Str(<<"j", "a", "k", "e", ".", "m", "c", "i", "n", "e", "r", "n", "e", "y", "@", "e", "p", "c", "i", "o", "r", ".", "c", "o", "m">>), Num(1), Null, Undefined}

\* the rejected alternatives the script's comments name
BadUser == SetKey(UserLiteral, "username", Num(1))
BadRecord == AddKey(RecordLiteral, "thisWillThrowAnError", Num(1))
BadMap == MapOf(<<Entry(Str(<<"i", "d", "-", "w", "a", "y", "n", "e">>), Named(Num(1)))>>)
WrongEmail == Str(<<"j", "a", "k", "e", ".", "m", "c", "i", "n", "e", "r", "n", "e", "y", "@", "e", "p", "c", "i", "o", "r", ".", "c", "o", "m">>)

\* every value as written or as the alternative a comment names
ScriptScenarios ==
  {UserLiteral, BadUser} \X {RecordLiteral, BadRecord} \X {MapLiteral, BadMap}
    \X PromiseInputs \X {EmailLiteral, WrongEmail}

Scenarios ==
  ScriptScenarios
  \cup (UserInputs \X {RecordLiteral} \X {MapLiteral} \X {PromiseLiteral} \X {EmailLiteral})
  \cup ({UserLiteral} \X RecordInputs \X {MapLiteral} \X {PromiseLiteral} \X {EmailLiteral})
  \cup ({UserLiteral} \X {RecordLiteral} \X MapInputs \X {PromiseLiteral} \X {EmailLiteral})
  \cup ({UserLiteral} \X {RecordLiteral} \X {MapLiteral} \X {PromiseLiteral} \X EmailInputs)

(***************************************************************************)
(* The script.                                                             *)
(***************************************************************************)
Values == {"user", "userWithRecord", "userFromMap", "promise", "email"}

NoResult == [success |-> FALSE, data |-> Undefined, error |-> <<>>, evaluated |-> FALSE]

\* schema.safeParse(x): a result object, never an exception
safeParse(r) ==
  IF isValid(r)
  THEN [success |-> TRUE, data |-> r.v, error |-> <<>>, evaluated |-> TRUE]
  ELSE [success |-> FALSE, data |-> Undefined, error |-> r.issues, evaluated |-> TRUE]

\* fromZodError(error): a ValidationError carrying the issues' messages
fromZodError(issues) ==
  V("object", Len(issues), <<"V", "a", "l", "i", "d", "a", "t", "i", "o", "n", "E", "r", "r", "o", "r">>, <<"details">>,
    <<Arr([i \in 1..Len(issues) |-> Str(issues[i])])>>)

Use(name) == validated' = [validated EXCEPT ![name] = @ + 1]

\* mutant: the throw is caught and the script goes on with the next snippet
LogParseCaught(name, r, next) ==
  LET res == safeParse(r)
  IN  /\ Use(name)
      /\ console' = IF res.success
                    THEN Append(console, [snippet |-> name, value |-> res.data])
                    ELSE console
      /\ pc' = next
      /\ crashAt' = crashAt
      /\ uncaught' = uncaught

\* console.log(schema.parse(x)): parse returns safeParse's data or throws its
\* error; nothing catches it, so a throw ends the script
LogParse(name, r, next) ==
  LET res == safeParse(r)
  IN  /\ Use(name)
      /\ IF res.success
         THEN /\ console' = Append(console, [snippet |-> name, value |-> res.data])
              /\ pc' = next
              /\ crashAt' = crashAt
              /\ uncaught' = uncaught
         ELSE /\ console' = console
              /\ pc' = "crashed"
              /\ crashAt' = name
              /\ uncaught' = res.error

Init ==
  /\ \E sc \in Scenarios :
       /\ user = sc[1]
       /\ userWithRecord = sc[2]
       /\ userFromMap = sc[3]
       /\ promise = sc[4]
       /\ email = sc[5]
  /\ results = NoResult
  /\ pc = "user"
  /\ crashAt = "none"
  /\ uncaught = <<>>
  /\ console = <<>>
  /\ microtasks = <<>>
  /\ settled = "none"
  /\ validated = [x \in Values |-> 0]

\* l.83  console.log(UserSchema.parse(user))
ParseUser ==
  /\ pc = "user"
  /\ LogParse("user", UserSchema(user), "userWithRecord")
  /\ UNCHANGED <<user, userWithRecord, userFromMap, promise, email, results, microtasks, settled>>

\* l.110  console.log(UserRecord.parse(userWithRecord))
ParseRecord ==
  /\ pc = "userWithRecord"
  /\ LogParse("userWithRecord", UserRecord(userWithRecord), "userFromMap")
  /\ UNCHANGED <<user, userWithRecord, userFromMap, promise, email, results, microtasks, settled>>

\* l.123  console.log(UserMap.parse(userFromMap))
ParseMap ==
  /\ pc = "userFromMap"
  /\ LogParse("userFromMap", UserMap(userFromMap), "promise")
  /\ UNCHANGED <<user, userWithRecord, userFromMap, promise, email, results, microtasks, settled>>

\* l.136  console.log(PromiseSchema.parse(promise)): the returned promise is
\* logged while pending; its reaction is queued once the input has settled
ParsePromise ==
  /\ pc = "promise"
  /\ LogParse("promise", PromiseSchema(promise), "email")
  /\ IF isValid(PromiseSchema(promise))
     THEN /\ settled' = "pending"
          /\ microtasks' = IF promise.s = <<"p", "e", "n", "d", "i", "n", "g">> THEN microtasks
                           ELSE Append(microtasks, "validate")
     ELSE UNCHANGED <<settled, microtasks>>
  /\ UNCHANGED <<user, userWithRecord, userFromMap, promise, email, results>>

\* mutant: BrandEmail.parse(email) without the console.log
ParseEmailSilent ==
  /\ pc = "email"
  /\ Use("email")
  /\ IF isValid(BrandEmail(email))
     THEN pc' = "safeParse" /\ crashAt' = crashAt /\ uncaught' = uncaught
     ELSE pc' = "crashed" /\ crashAt' = "email" /\ uncaught' = BrandEmail(email).issues
  /\ UNCHANGED <<user, userWithRecord, userFromMap, promise, email, results, console,
                 microtasks, settled>>

\* l.156  console.log(BrandEmail.parse(email))
ParseEmail ==
  /\ pc = "email"
  /\ LogParse("email", BrandEmail(email), "safeParse")
  /\ UNCHANGED <<user, userWithRecord, userFromMap, promise, email, results, microtasks, settled>>

\* mutant: safeParse is handed another of the example values
SafeParseOther ==
  /\ pc = "safeParse"
  /\ Use("userWithRecord")
  /\ results' = safeParse(UserSchema(userWithRecord))
  /\ pc' = "if"
  /\ UNCHANGED <<user, userWithRecord, userFromMap, promise, email, crashAt, uncaught, console,
                 microtasks, settled>>

\* l.182  const results = UserSchema.safeParse(user)
SafeParseUser ==
  /\ pc = "safeParse"
  /\ Use("user")
  /\ results' = safeParse(UserSchema(user))
  /\ pc' = "if"
  /\ UNCHANGED <<user, userWithRecord, userFromMap, promise, email, crashAt, uncaught, console,
                 microtasks, settled>>

\* mutant: the condition of l.184 inverted
LogErrorInverted ==
  /\ pc = "if"
  /\ console' = IF results.success
                THEN Append(console, [snippet |-> "safeParse", value |-> fromZodError(results.error)])
                ELSE console
  /\ pc' = "done"
  /\ UNCHANGED <<user, userWithRecord, userFromMap, promise, email, results, crashAt, uncaught,
                 microtasks, settled, validated>>

\* l.184-186  if (!results.success) console.log(fromZodError(results.error))
LogError ==
  /\ pc = "if"
  /\ console' = IF ~results.success
                THEN Append(console, [snippet |-> "safeParse", value |-> fromZodError(results.error)])
                ELSE console
  /\ pc' = "done"
  /\ UNCHANGED <<user, userWithRecord, userFromMap, promise, email, results, crashAt, uncaught,
                 microtasks, settled, validated>>

\* mutant: the reaction runs as soon as it is queued, between two statements
ThenCallbackEager ==
  /\ microtasks # <<>>
  /\ microtasks' = Tail(microtasks)
  /\ settled' = IF PromiseSchemaThen(promise) THEN "fulfilled" ELSE "rejected"
  /\ UNCHANGED <<user, userWithRecord, userFromMap, promise, email, results, pc, crashAt, uncaught,
                 console, validated>>

\* the reaction of l.136's promise: a microtask, so it runs once the script's
\* synchronous statements are over; it settles the logged promise
ThenCallback ==
  /\ pc \in {"done", "crashed"}
  /\ microtasks # <<>>
  /\ microtasks' = Tail(microtasks)
  /\ settled' = IF PromiseSchemaThen(promise) THEN "fulfilled" ELSE "rejected"
  /\ UNCHANGED <<user, userWithRecord, userFromMap, promise, email, results, pc, crashAt, uncaught,
                 console, validated>>

Next ==
  \/ ParseUser
  \/ ParseRecord
  \/ ParseMap
  \/ ParsePromise
  \/ ParseEmail
  \/ SafeParseUser
  \/ LogError
  \/ ThenCallback

Spec == Init /\ [][Next]_vars

(***************************************************************************)
(* Vocabulary of the properties.                                           *)
(***************************************************************************)
Order == <<"user", "userWithRecord", "userFromMap", "promise", "email">>

Ran(name) == validated[name] >= 1
Ended == pc \in {"done", "crashed"}
Logged(name) == \E i \in 1..Len(console) : console[i].snippet = name
AllLiteral ==
  /\ user = UserLiteral
  /\ userWithRecord = RecordLiteral
  /\ userFromMap = MapLiteral
  /\ promise = PromiseLiteral
  /\ email = EmailLiteral

\* the parse result of each snippet's own input
Own(name) ==
  CASE name = "user" -> UserSchema(user)
    [] name = "userWithRecord" -> UserRecord(userWithRecord)
    [] name = "userFromMap" -> UserMap(userFromMap)
    [] name = "promise" -> PromiseSchema(promise)
    [] name = "email" -> BrandEmail(email)

IsStr(v) == v.t = "string"
IsNum(v) == v.t = "number"
IsBool(v) == v.t = "boolean"
IsArr(v) == v.t = "array"
IsObj(v) == v.t = "object"
Is(v, chars) == v.t = "string" /\ v.s = chars

(***************************************************************************)
(* C1.  As stated: a run of the script ends with safeParse(user) having    *)
(* failed and the formatted error written to the console.                  *)
(***************************************************************************)
C1_Stated ==
  pc = "done" =>
    /\ ~results.success
    /\ console[Len(console)] = [snippet |-> "safeParse", value |-> fromZodError(results.error)]

\* C1, amended: the error is formatted and logged only when safeParse fails;
\* whenever the script reaches l.182, parse(user) has returned for the same
\* value at l.83, so safeParse succeeds with the data l.83 logged, and the
\* snippet writes nothing.
C1_SafeParseSucceeds ==
  /\ results.evaluated =>
       /\ results.success
       /\ results.error = <<>>
       /\ results.data = console[1].value
  /\ Logged("safeParse") <=> (pc = "done" /\ ~results.success)
  /\ ~Logged("safeParse")

C1_Witness == pc = "done" /\ user = UserLiteral /\ results.success /\ Len(console) = 5

(***************************************************************************)
(* C2.  As stated: every example value is handed to a validator exactly    *)
(* once and never again.                                                   *)
(***************************************************************************)
C2_Stated == \A x \in Values : validated[x] <= 1

\* C2, amended: userWithRecord, userFromMap, promise and email are validated
\* once each; user is validated twice, by parse at l.83 and again by
\* safeParse at l.182.
C2_UserValidatedTwice ==
  /\ \A x \in Values \ {"user"} : validated[x] <= 1
  /\ validated["user"] <= 2
  /\ validated["user"] = 2 <=> results.evaluated
  /\ pc = "done" =>
       /\ validated["user"] = 2
       /\ \A x \in Values \ {"user"} : validated[x] = 1

C2_Witness == pc = "done" /\ AllLiteral /\ validated["user"] = 2

(***************************************************************************)
(* C3.  As stated: a snippet runs and writes whatever the other snippets'  *)
(* parse calls do; so once the script is over, every snippet whose own     *)
(* input is valid has written its entry.                                   *)
(***************************************************************************)
C3_Stated ==
  Ended => \A i \in 1..Len(Order) : isValid(Own(Order[i])) => Logged(Order[i])

\* C3, amended: a snippet runs exactly when every earlier parse call returned
\* (an uncaught throw ends the script, the throwing snippet being the first
\* whose input is invalid); the safeParse snippet reads the user of the first;
\* what a snippet writes, when it runs, is the parse of its own input alone.
C3_ThrowEndsScript ==
  LET own == Items([i \in 1..Len(Order) |-> Own(Order[i])])
      earlierReturned == Items([i \in 1..Len(Order) |-> \A j \in 1..(i - 1) : isValid(own[j])])
  IN  /\ \A i \in 1..Len(Order) :
           /\ Ran(Order[i]) => earlierReturned[i]
           /\ Ended /\ earlierReturned[i] => Ran(Order[i])
           /\ Logged(Order[i]) <=> (Ran(Order[i]) /\ isValid(own[i]))
           /\ crashAt = Order[i] <=> (Ran(Order[i]) /\ ~isValid(own[i]))
      /\ \A i \in 1..Len(console) :
           console[i] = [snippet |-> Order[i], value |-> own[i].v]
      /\ results.evaluated <=> (pc \in {"if", "done"})
      /\ results.evaluated => \A i \in 1..Len(Order) : isValid(own[i])

C3_Witness ==
  /\ pc = "crashed"
  /\ crashAt = "user"
  /\ console = <<>>
  /\ \A i \in 2..Len(Order) : isValid(Own(Order[i])) /\ ~Ran(Order[i])

(***************************************************************************)
(* C4.  The five unconditional parse calls write one console entry each,   *)
(* in source order: the entries written are always the first entries of    *)
(* user, record, map, promise, email, one per call that has returned, and  *)
(* all five once the last call has returned.                               *)
(***************************************************************************)
C4_OneEntryEachInOrder ==
  /\ Len(console) <= Len(Order)
  /\ \A i \in 1..Len(console) : console[i].snippet = Order[i]
  /\ \A i \in 1..Len(Order) : pc = Order[i] => Len(console) = i - 1
  /\ pc \in {"safeParse", "if", "done"} => Len(console) = Len(Order)
  /\ pc = "crashed" => \E i \in 1..Len(Order) : crashAt = Order[i] /\ Len(console) = i - 1

C4_Witness ==
  /\ pc = "done"
  /\ [i \in 1..Len(console) |-> console[i].snippet] = Order

(***************************************************************************)
(* C5.  Promise validation is not awaited: l.136 logs the pending promise  *)
(* parse returned, not the string; the check of the resolved value runs in *)
(* a reaction, which runs only once no synchronous statement is left (with *)
(* the email accepted: after the email and the safeParse snippets), and    *)
(* from then on no statement runs and nothing it wrote changes, whatever   *)
(* the check's outcome.                                                    *)
(***************************************************************************)
Reacted == settled \in {"fulfilled", "rejected"}

\* C5: the logged value is the pending promise; the reaction runs only after
\* the synchronous statements, and nothing they did changes after it.
C5_ValidationDeferred ==
  /\ [](\A i \in 1..Len(console) :
          console[i].snippet = "promise" => console[i].value = PromiseOf(<<"p", "e", "n", "d", "i", "n", "g">>, Undefined))
  /\ [](Ran("promise") /\ ~Ended => ~Reacted)
  /\ [](Reacted /\ isValid(BrandEmail(email)) =>
          pc = "done" /\ Logged("email") /\ results.evaluated)
  /\ [](Reacted => (settled = "fulfilled" <=> PromiseSchemaThen(promise)))
  /\ [][Reacted' => pc' = pc /\ console' = console /\ results' = results /\ crashAt' = crashAt]_vars

C5_Witness ==
  /\ settled = "rejected"
  /\ promise = PromiseOf(<<"f", "u", "l", "f", "i", "l", "l", "e", "d">>, Num(1))
  /\ pc = "done"
  /\ Len(console) = 5
  /\ results.evaluated

(***************************************************************************)
(* C7.  UserSchema accepts a record exactly when every field is as the     *)
(* claim lists; an absent isDeveloper comes out false, a null one null.    *)
(***************************************************************************)
RenewalAsStated(v) ==
  /\ IsObj(v)
  /\ \/ /\ Is(Get(v, "status"), <<"s", "u", "c", "c", "e", "s", "s">>)
        /\ IsBool(Get(v, "userSubscribed"))
        /\ IsStr(Get(v, "subscriptionTier"))
     \/ /\ Is(Get(v, "status"), <<"f", "a", "i", "l", "e", "d">>)
        /\ Get(v, "error") = ErrorObj

UserAsStated(u) ==
  /\ IsObj(u)
  /\ IsStr(Get(u, "id")) \/ IsNum(Get(u, "id"))
  /\ IsStr(Get(u, "username")) /\ Len(Get(u, "username").s) >= 3
  /\ IsNum(Get(u, "age")) /\ (Get(u, "age").n > 0 \/ Get(u, "age") = Infinity)
  /\ Get(u, "birthday") \in {Undefined, Date(TRUE)}
  /\ IsBool(Get(u, "isDeveloper")) \/ Get(u, "isDeveloper") \in {Null, Undefined}
  /\ Get(u, "isSuperCool") = True
  /\ \E h \in {<<"W", "o", "o", "d", "w", "o", "r", "k", "i", "n", "g">>, <<"B", "i", "k", "i", "n", "g">>, <<"G", "u", "i", "t", "a", "r">>} : Is(Get(u, "hobbies"), h)
  /\ LET f == Get(u, "family")
     IN  IsArr(f) /\ Len(f.xs) > 0 /\ \A i \in 1..Len(f.xs) : IsStr(f.xs[i])
  /\ LET c == Get(u, "coordinates")
     IN  /\ IsArr(c)
         /\ Len(c.xs) = 3
         /\ IsNum(c.xs[1])
         /\ IsStr(c.xs[2])
         /\ IsNum(c.xs[3]) /\ c.xs[3].s = <<>> /\ c.xs[3].n % 2 = 0 /\ c.xs[3].n > 160
  /\ RenewalAsStated(Get(u, "subscriptionRenewal"))

\* C7: parse(user) returns exactly for the users the claim describes, and
\* the logged isDeveloper is false for an absent one, null for null.
C7_UserSchemaAccepts ==
  Ran("user") =>
    /\ Logged("user") <=> UserAsStated(user)
    /\ crashAt = "user" <=> ~UserAsStated(user)
    /\ Logged("user") =>
         LET out == Get(console[1].value, "isDeveloper")
         IN  /\ Get(user, "isDeveloper") = Undefined => out = False
             /\ Get(user, "isDeveloper") = Null => out = Null
             /\ IsBool(Get(user, "isDeveloper")) => out = Get(user, "isDeveloper")

C7_Witness ==
  /\ Logged("user")
  /\ ~HasKey(user, "isDeveloper")
  /\ Get(console[1].value, "isDeveloper") = False
  /\ Get(user, "subscriptionRenewal") = Sub(<<"f", "a", "i", "l", "e", "d">>, <<"error">>, <<ErrorObj>>)

(***************************************************************************)
(* C8.  UserRecord accepts an object exactly when every value is a string, *)
(* whatever the keys; one value that is not a string makes parse throw.    *)
(***************************************************************************)
C8_RecordChecksValuesOnly ==
  Ran("userWithRecord") =>
    LET o == userWithRecord
        allStrings == IsObj(o) /\ \A i \in 1..Len(o.xs) : IsStr(o.xs[i])
    IN  /\ Logged("userWithRecord") <=> allStrings
        /\ crashAt = "userWithRecord" <=> ~allStrings
        /\ Logged("userWithRecord") => console[2].value = o

C8_Witness ==
  /\ crashAt = "userWithRecord"
  /\ Get(userWithRecord, "thisWillThrowAnError") = Num(1)
  /\ Get(userWithRecord, "keyDoesNotMatter").t = "string"

(***************************************************************************)
(* C9.  BrandEmail accepts exactly the strings in email format that end    *)
(* with '@grow.com', and returns them unchanged; a well-formed email of    *)
(* another domain is rejected with 'Email must end with @grow.com'; a      *)
(* string that is no email is rejected though it ends with '@grow.com'.    *)
(***************************************************************************)
C9_BrandEmailAccepts ==
  Ran("email") =>
    LET wellFormed == IsStr(email) /\ IsEmail(email.s)
        grow == IsStr(email) /\ EndsWith(email.s, <<"@", "g", "r", "o", "w", ".", "c", "o", "m">>)
    IN  /\ Logged("email") <=> (wellFormed /\ grow)
        /\ Logged("email") => console[5].value = email
        /\ wellFormed /\ ~grow =>
             crashAt = "email" /\ uncaught = <<<<"E", "m", "a", "i", "l", " ", "m", "u", "s", "t", " ", "e", "n", "d", " ", "w", "i", "t", "h", " ", "@", "g", "r", "o", "w", ".", "c", "o", "m">>>>
        /\ grow /\ ~wellFormed => crashAt = "email"
        /\ email = WrongEmail => uncaught = <<<<"E", "m", "a", "i", "l", " ", "m", "u", "s", "t", " ", "e", "n", "d", " ", "w", "i", "t", "h", " ", "@", "g", "r", "o", "w", ".", "c", "o", "m">>>>
        /\ email \in {Str(<<"@", "g", "r", "o", "w", ".", "c", "o", "m">>), Str(<<"j", " ", "@", "g", "r", "o", "w", ".", "c", "o", "m">>), Str(<<".", "j", "@", "g", "r", "o", "w", ".", "c", "o", "m">>),
                      Str(<<"j", ".", ".", "j", "@", "g", "r", "o", "w", ".", "c", "o", "m">>), Str(<<"j", "@", "j", "@", "g", "r", "o", "w", ".", "c", "o", "m">>)} => crashAt = "email"

C9_Witness ==
  /\ crashAt = "email"
  /\ email = Str(<<"j", " ", "@", "g", "r", "o", "w", ".", "c", "o", "m">>)
  /\ uncaught = <<<<"I", "n", "v", "a", "l", "i", "d", " ", "e", "m", "a", "i", "l">>>>

(***************************************************************************)
(* C10.  With the values written in the script no parse call throws: every *)
(* call that has run has written its entry, the script is never ended by   *)
(* a throw, at its last statement the five entries are written and         *)
(* safeParse has succeeded, and once the reaction has run the promise is    *)
(* fulfilled, not rejected.                                                *)
(***************************************************************************)
C10_LiteralRunCompletes ==
  AllLiteral =>
    /\ pc # "crashed" /\ crashAt = "none" /\ uncaught = <<>>
    /\ settled # "rejected"
    /\ \A i \in 1..Len(Order) : Ran(Order[i]) => Logged(Order[i])
    /\ results.evaluated => results.success
    /\ pc = "done" => Len(console) = 5 /\ ~Logged("safeParse")
    /\ (pc = "done" /\ microtasks = <<>>) => settled = "fulfilled"

C10_Witness ==
  /\ AllLiteral
  /\ pc = "done"
  /\ Len(console) = 5
  /\ microtasks = <<>>
  /\ settled = "fulfilled"
====
